---- MODULE Spec2Model ----
(***************************************************************************)
(* Model of headset-notify.py: the status prober check_headset, the        *)
(* notifier send_notification, adaptive_sleep, and the polling loop of     *)
(* main.  Time is counted in units of 10 ms.  A text is a sequence of      *)
(* tokens; the tokens are the literals the regular expressions of          *)
(* check_headset look for, plus name characters, digits and a newline.     *)
(***************************************************************************)
EXTENDS Integers, Sequences, FiniteSets

\* ------------------------------------------------------------------ bounds
\* Largest value time.time() returns in the model (units of 10 ms).
MaxTime == 31

\* --------------------------------------------------------- program constants
\* min_time_between_checks = 0.1
MinTimeBetweenChecks == 10
\* time.sleep(0.01)
RateLimitSleep == 1
\* if cpu_percent > 20
CpuThreshold == 20
\* return 0.5
HighCpuSleep == 50
\* return 0.1
LowCpuSleep == 10

\* ------------------------------------------------------------------ values
\* Python's None, and a value that is not None.
None == [none |-> TRUE]
Some(v) == [none |-> FALSE, v |-> v]

\* Python truthiness of a `str | None`: None and "" are falsy.
Truthy(x) == x # None /\ x.v # <<>>

\* ------------------------------------------------------------------ tokens
FOUND == "Found "
BANG == "!"
NL == "\n"
BATTERY_AVAILABLE == "BATTERY_AVAILABLE"
BATTERY_UNAVAILABLE == "BATTERY_UNAVAILABLE"
LEVEL == "Level: "
PERCENT == "%"
Digits == {"0", "5", "7", "8"}

DigitVal(d) == CASE d = "0" -> 0 [] d = "5" -> 5 [] d = "7" -> 7 [] d = "8" -> 8

\* int(s) for a string of digits
RECURSIVE ToInt(_)
ToInt(s) == IF s = <<>> THEN 0
            ELSE 10 * ToInt(SubSeq(s, 1, Len(s) - 1)) + DigitVal(s[Len(s)])

\* str.strip(): leading and trailing whitespace removed
RECURSIVE Strip(_)
Strip(s) == IF s # <<>> /\ s[1] = NL THEN Strip(Tail(s))
            ELSE IF s # <<>> /\ s[Len(s)] = NL THEN Strip(SubSeq(s, 1, Len(s) - 1))
            ELSE s

\* Faulty variant: the greedy group (.*), which runs to the last "!" of the line.
FoundMatchAtGreedy(s, i, j) ==
    /\ s[i] = FOUND
    /\ j > i
    /\ s[j] = BANG
    /\ \A k \in (i + 1)..(j - 1) : s[k] # NL
    /\ \A k \in (j + 1)..Len(s) :
         s[k] = BANG => \E m \in (j + 1)..(k - 1) : s[m] = NL
\* Faulty variant: "." also matches a newline (re.DOTALL).
FoundMatchAtDotAll(s, i, j) ==
    /\ s[i] = FOUND
    /\ j > i
    /\ s[j] = BANG
    /\ \A k \in (i + 1)..(j - 1) : s[k] # BANG
\* re.search(r"Found (.*?)!", output): a match starts at i and its lazy group
\* ends before the first "!" after i, with no newline in between.
FoundMatchAt(s, i, j) ==
    /\ s[i] = FOUND
    /\ j > i
    /\ s[j] = BANG
    /\ \A k \in (i + 1)..(j - 1) : s[k] # NL /\ s[k] # BANG

\* device_match.group(1) of the leftmost match, or None when there is none.
SearchFound(s) ==
    LET starts == {i \in 1..Len(s) : \E j \in 1..Len(s) : FoundMatchAt(s, i, j)}
    IN  IF starts = {} THEN None
        ELSE LET i == CHOOSE a \in starts : \A b \in starts : a <= b
                 j == CHOOSE e \in 1..Len(s) : FoundMatchAt(s, i, e)
             IN  Some(SubSeq(s, i + 1, j - 1))

\* re.search(r"Level: (\d+)%", output): one or more digits, then "%".
LevelMatchAt(s, i, j) ==
    /\ s[i] = LEVEL
    /\ j > i + 1
    /\ s[j] = PERCENT
    /\ \A k \in (i + 1)..(j - 1) : s[k] \in Digits

\* int(battery_match.group(1)) of the leftmost match, or None.
SearchLevel(s) ==
    LET starts == {i \in 1..Len(s) : \E j \in 1..Len(s) : LevelMatchAt(s, i, j)}
    IN  IF starts = {} THEN None
        ELSE LET i == CHOOSE a \in starts : \A b \in starts : a <= b
                 j == CHOOSE e \in 1..Len(s) : LevelMatchAt(s, i, e)
             IN  Some(ToInt(SubSeq(s, i + 1, j - 1)))

\* "BATTERY_AVAILABLE" in output
HasBatteryMarker(s) == \E i \in 1..Len(s) : s[i] = BATTERY_AVAILABLE

\* A reading: (device_name, battery_level, battery_available)
NullReading == <<None, None, FALSE>>

\* Faulty variant: the marker is reported whether or not a device was found.
ParseOutputUnguarded(stdout) ==
    LET output == Strip(stdout)
    IN  <<SearchFound(output), SearchLevel(output), HasBatteryMarker(output)>>
\* The body of check_headset's try block, given the captured stdout.
ParseOutput(stdout) ==
    LET output == Strip(stdout)
        device_match == SearchFound(output)
    IN  IF device_match = None THEN NullReading
        ELSE <<device_match, SearchLevel(output), HasBatteryMarker(output)>>

\* subprocess.run(["headsetcontrol", "-b"], capture_output=True, text=True)
\* either returns a CompletedProcess (whatever the exit status: check=True is
\* not passed, so CalledProcessError is never raised) or raises.
Completed(rc, out) == [raised |-> FALSE, returncode |-> rc, stdout |-> out]
Raised(exc) == [raised |-> TRUE, exc |-> exc]

\* check_headset(): every exception gives the null reading.
check_headset(run) ==
    IF run.raised THEN NullReading ELSE ParseOutput(run.stdout)

\* The outputs of headsetcontrol the loop is run against.
LoopOutputs ==
    { <<>>,
      <<FOUND, "X", BANG, NL, BATTERY_AVAILABLE, NL, LEVEL, "5", "7", PERCENT, NL>>,
      <<FOUND, "X", BANG, NL, BATTERY_UNAVAILABLE>>,
      <<FOUND, "Y", BANG, BATTERY_AVAILABLE>>,
      <<FOUND, "Y", BANG, LEVEL, "5", PERCENT>>,
      <<FOUND, BANG>>,
      <<BATTERY_AVAILABLE, LEVEL, "5", PERCENT>> }

ExitStatuses == {0, 1}

\* The outputs check_headset is run against on its own: up to MaxChunks pieces
\* of output, whole lines of headsetcontrol as well as fragments of them.
MaxChunks == 4
Chunks ==
    { <<FOUND, "X", BANG>>, <<FOUND, "Y", BANG>>, <<BATTERY_AVAILABLE>>,
      <<BATTERY_UNAVAILABLE>>, <<LEVEL, "5", "7", PERCENT>>, <<LEVEL, "8", PERCENT>>,
      <<NL>>, <<FOUND>>, <<BANG>>, <<LEVEL>>, <<"5">>, <<PERCENT>>, <<"X">> }

RECURSIVE Concat(_)
Concat(cs) == IF cs = <<>> THEN <<>> ELSE Head(cs) \o Concat(Tail(cs))

ParseInputs == {Concat(cs) : cs \in UNION {[1..n -> Chunks] : n \in 0..MaxChunks}}

\* psutil.cpu_percent(interval=None) returns a percentage rounded to one
\* decimal: a sample is counted in tenths of a percent.
Percent(p) == 10 * p
CpuPercents == Percent(0)..Percent(100)
\* The samples the loop is run against.
CpuSamples == {Percent(0), Percent(10), Percent(20), Percent(20) + 1, Percent(25),
               Percent(100)}

\* Faulty variant: `>=` for `>`.
adaptive_sleep_inclusive(sample) ==
    IF sample >= Percent(CpuThreshold) THEN HighCpuSleep ELSE LowCpuSleep
\* adaptive_sleep(), given the sample
\* Faulty variant: the low-load sleep is 0.01 s.
adaptive_sleep_short(sample) ==
    IF sample > Percent(CpuThreshold) THEN HighCpuSleep ELSE RateLimitSleep
adaptive_sleep(sample) ==
    IF sample > Percent(CpuThreshold) THEN HighCpuSleep ELSE LowCpuSleep

Times == 0..MaxTime

\* Faulty variant: the test forgets last_check.
RateLimitedIgnoresLast(now, last) == now < MinTimeBetweenChecks
\* current_time - last_check < min_time_between_checks
\* Faulty variant: the operands of the subtraction are swapped.
RateLimitedSwapped(now, last) == last - now < MinTimeBetweenChecks
RateLimited(now, last) == now - last < MinTimeBetweenChecks

TurnedOn == "Headset Turned On"
TurnedOff == "Headset Turned Off"

\* f"Device: {device_name}\nBattery: {battery_level}%"
OnMessage(name, level) == <<"Device: ", name, "\nBattery: ", level, "%">>
\* f"Device '{last_device_name}' powered down"
OffMessage(name) == <<"Device '", name, "' powered down">>

\* ------------------------------------------------------------------- state
VARIABLES
    pc,                 \* the statement of main() the loop is at
    last_available,     \* main's locals
    last_device_name,
    last_check,
    current_time,
    device_name,
    battery_level,
    battery_available,
    sleep_time,
    run_result,         \* what the last subprocess.run of check_headset did
    running,            \* the child processes that have not exited yet
    notified,           \* the calls of send_notification, in order
    nprobes,            \* how many times check_headset was called
    hist,               \* per call of check_headset: the state it found and its reading
    recording,          \* whether notified, nprobes and hist are kept (fixed per run)
    clock,              \* the clock time.time() reads, where it is a monotonic one
    stdout,             \* result.stdout, where check_headset is run on its own
    cpu_percent         \* adaptive_sleep's sample, where it is run on its own

vars == <<pc, last_available, last_device_name, last_check, current_time,
          device_name, battery_level, battery_available, sleep_time,
          run_result, running, notified, nprobes, hist, recording,
          clock, stdout, cpu_percent>>

locals == <<last_available, last_device_name, last_check, current_time>>
reading == <<device_name, battery_level, battery_available>>
observed == <<run_result, nprobes, hist>>
env == <<recording, clock, stdout, cpu_percent>>

Init ==
    /\ pc = "time"
    /\ last_available = FALSE
    /\ last_device_name = None
    /\ last_check = 0
    /\ current_time = 0
    /\ device_name = None
    /\ battery_level = None
    /\ battery_available = FALSE
    /\ sleep_time = 0
    /\ run_result = "none"
    /\ running = {}
    /\ notified = <<>>
    /\ nprobes = 0
    /\ hist = <<>>
    /\ recording = TRUE
    /\ clock = 0
    /\ stdout = <<>>
    /\ cpu_percent = 0

\* ----------------------------------------------------------------- main()
\* current_time = time.time(), then the rate-limit test.
ReadTimeAt(t) ==
    /\ pc = "time"
    /\ current_time' = t
    /\ pc' = IF RateLimited(t, last_check) THEN "rate_sleep" ELSE "check"
    /\ UNCHANGED <<last_available, last_device_name, last_check, reading,
                   sleep_time, running, notified, observed>>
    /\ UNCHANGED env

\* time.time() is the wall clock: it may return any time, earlier ones too.
ReadTime == \E t \in Times : ReadTimeAt(t)

\* time.time() raises: the except clause of the loop catches it.
ReadTimeRaises ==
    /\ pc = "time"
    /\ pc' = "except"
    /\ UNCHANGED <<locals, reading, sleep_time, running, notified, observed>>
    /\ UNCHANGED env

\* Faulty variant: `continue` is missing.
RateLimitSleepFallsThrough ==
    /\ pc = "rate_sleep"
    /\ pc' = "check"
    /\ UNCHANGED <<locals, reading, sleep_time, running, notified, observed>>
    /\ UNCHANGED env
\* time.sleep(0.01); continue
RateLimitSleepReturns ==
    /\ pc = "rate_sleep"
    /\ pc' = "time"
    /\ UNCHANGED <<locals, reading, sleep_time, running, notified, observed>>
    /\ UNCHANGED env

\* time.sleep(0.01) raises: the except clause catches it, `continue` is not
\* reached.
RateLimitSleepRaises ==
    /\ pc = "rate_sleep"
    /\ pc' = "except"
    /\ UNCHANGED <<locals, reading, sleep_time, running, notified, observed>>
    /\ UNCHANGED env

\* except Exception as e: logging.error(...); the loop goes on to the adaptive
\* sleep.
LogError ==
    /\ pc = "except"
    /\ pc' = "adaptive"
    /\ UNCHANGED <<locals, reading, sleep_time, running, notified, observed>>
    /\ UNCHANGED env

\* device_name, battery_level, battery_available = check_headset()
\* last_check = current_time
Probed(run) ==
    LET r == check_headset(run)
    IN  /\ device_name' = r[1]
        /\ battery_level' = r[2]
        /\ battery_available' = r[3]
        /\ last_check' = current_time
        /\ run_result' = IF run.raised THEN run.exc
                         ELSE IF run.returncode = 0 THEN "exit 0" ELSE "exit nonzero"
        /\ nprobes' = IF recording THEN nprobes + 1 ELSE nprobes
        /\ hist' = IF recording
                   THEN Append(hist, [was |-> last_available, available |-> r[3]])
                   ELSE hist
        /\ pc' = "transition"

\* Faulty variant: the child is started and not waited for (Popen).
AfterRunNoWait(procs, child) == procs
\* What subprocess.run leaves running when it returns: nothing, it waits for
\* the child to exit.
AfterRun(procs, child) == procs \ {child}

\* check_headset() starts headsetcontrol, or fails to start it.
CheckStart ==
    /\ pc = "check"
    /\ running' = running \cup {"headsetcontrol"}
    /\ pc' = "check_wait"
    /\ UNCHANGED <<locals, reading, sleep_time, notified, observed>>
    /\ UNCHANGED env

CheckStartFails ==
    /\ pc = "check"
    /\ Probed(Raised("FileNotFoundError"))
    /\ UNCHANGED <<last_available, last_device_name, current_time, sleep_time,
                   running, notified>>
    /\ UNCHANGED env

\* subprocess.run returns when headsetcontrol has exited, whatever its exit
\* status, or raises when its output cannot be decoded.
CheckReturns ==
    /\ pc = "check_wait"
    /\ running' = AfterRun(running, "headsetcontrol")
    /\ \E run \in {Completed(rc, out) : rc \in ExitStatuses, out \in LoopOutputs}
                  \cup {Raised("UnicodeDecodeError")} :
        Probed(run)
    /\ UNCHANGED <<last_available, last_device_name, current_time, sleep_time,
                   notified>>
    /\ UNCHANGED env

\* Faulty variant: the tests of last_available are missing.
TransitionIgnoresState ==
    IF battery_available THEN "notify_on"
    ELSE IF Truthy(device_name) THEN "notify_off"
    ELSE "adaptive"
\* Faulty variant: `and device_name` is missing.
TransitionIgnoresName ==
    IF ~last_available /\ battery_available THEN "notify_on"
    ELSE IF last_available /\ ~battery_available THEN "notify_off"
    ELSE "adaptive"
\* if not last_available and battery_available: ...
\* elif last_available and not battery_available and device_name: ...
Transition ==
    IF ~last_available /\ battery_available THEN "notify_on"
    ELSE IF last_available /\ ~battery_available /\ Truthy(device_name) THEN "notify_off"
    ELSE "adaptive"

Evaluate ==
    /\ pc = "transition"
    /\ pc' = Transition
    /\ UNCHANGED <<locals, reading, sleep_time, running, notified, observed>>
    /\ UNCHANGED env

\* Faulty variant: "Headset Turned Off" names the reading's device_name.
NotificationNamesReading ==
    IF pc = "notify_on"
    THEN [title |-> TurnedOn, message |-> OnMessage(device_name, battery_level)]
    ELSE [title |-> TurnedOff, message |-> OffMessage(device_name)]
\* The notification the loop sends in the branch it is in.
Notification ==
    IF pc = "notify_on"
    THEN [title |-> TurnedOn, message |-> OnMessage(device_name, battery_level)]
    ELSE [title |-> TurnedOff, message |-> OffMessage(last_device_name)]

Sent(n, ok) == [title |-> n.title, message |-> n.message, probe |-> nprobes, ok |-> ok]

Record(call) == IF recording THEN Append(notified, call) ELSE notified

\* send_notification(): subprocess.run starts notify-send ...
NotifyStart ==
    /\ pc \in {"notify_on", "notify_off"}
    /\ notified' = Record(Sent(Notification, TRUE))
    /\ running' = running \cup {"notify-send"}
    /\ pc' = IF pc = "notify_on" THEN "notify_on_wait" ELSE "notify_off_wait"
    /\ UNCHANGED <<locals, reading, sleep_time, observed>>
    /\ UNCHANGED env

\* Faulty variant: the exception leaves send_notification and reaches the
\* loop's handler.
NotifyFailsPropagates ==
    /\ pc \in {"notify_on", "notify_off"}
    /\ notified' = Record(Sent(Notification, FALSE))
    /\ pc' = "except"
    /\ UNCHANGED <<locals, reading, sleep_time, running, observed>>
    /\ UNCHANGED env
\* ... or fails to: the exception is logged inside send_notification.
NotifyFails ==
    /\ pc \in {"notify_on", "notify_off"}
    /\ notified' = Record(Sent(Notification, FALSE))
    /\ pc' = IF pc = "notify_on" THEN "set_on" ELSE "set_off"
    /\ UNCHANGED <<locals, reading, sleep_time, running, observed>>
    /\ UNCHANGED env

NotifyReturns ==
    /\ pc \in {"notify_on_wait", "notify_off_wait"}
    /\ running' = AfterRun(running, "notify-send")
    /\ pc' = IF pc = "notify_on_wait" THEN "set_on" ELSE "set_off"
    /\ UNCHANGED <<locals, reading, sleep_time, notified, observed>>
    /\ UNCHANGED env

\* Faulty variant: `last_available = True` is missing.
SetOnKeepsState ==
    /\ pc = "set_on"
    /\ last_device_name' = device_name
    /\ pc' = "adaptive"
    /\ UNCHANGED <<last_available, last_check, current_time, reading, sleep_time,
                   running, notified, observed>>
    /\ UNCHANGED env
\* last_available = True; last_device_name = device_name
SetOn ==
    /\ pc = "set_on"
    /\ last_available' = TRUE
    /\ last_device_name' = device_name
    /\ pc' = "adaptive"
    /\ UNCHANGED <<last_check, current_time, reading, sleep_time, running,
                   notified, observed>>
    /\ UNCHANGED env

\* Faulty variant: `last_available = False` is missing.
SetOffKeepsState ==
    /\ pc = "set_off"
    /\ pc' = "adaptive"
    /\ UNCHANGED <<locals, reading, sleep_time, running, notified, observed>>
    /\ UNCHANGED env
\* last_available = False
SetOff ==
    /\ pc = "set_off"
    /\ last_available' = FALSE
    /\ pc' = "adaptive"
    /\ UNCHANGED <<last_device_name, last_check, current_time, reading,
                   sleep_time, running, notified, observed>>
    /\ UNCHANGED env

\* sleep_time = adaptive_sleep()
AdaptiveSleep ==
    /\ pc = "adaptive"
    /\ \E cpu \in CpuSamples : sleep_time' = adaptive_sleep(cpu)
    /\ pc' = "sleep"
    /\ UNCHANGED <<locals, reading, running, notified, observed>>
    /\ UNCHANGED env

\* psutil.cpu_percent raises: outside the try block, the exception leaves main.
AdaptiveSleepRaises ==
    /\ pc = "adaptive"
    /\ pc' = "crashed"
    /\ UNCHANGED <<locals, reading, sleep_time, running, notified, observed>>
    /\ UNCHANGED env

\* time.sleep(sleep_time)
SleepReturns ==
    /\ pc = "sleep"
    /\ pc' = "time"
    /\ UNCHANGED <<locals, reading, sleep_time, running, notified, observed>>
    /\ UNCHANGED env

\* time.sleep(sleep_time) raises: outside the try block too.
SleepRaises ==
    /\ pc = "sleep"
    /\ pc' = "crashed"
    /\ UNCHANGED <<locals, reading, sleep_time, running, notified, observed>>
    /\ UNCHANGED env

Next ==
    \/ ReadTime
    \/ ReadTimeRaises
    \/ RateLimitSleepReturns
    \/ RateLimitSleepRaises
    \/ LogError
    \/ CheckStart
    \/ CheckStartFails
    \/ CheckReturns
    \/ Evaluate
    \/ NotifyStart
    \/ NotifyFails
    \/ NotifyReturns
    \/ SetOn
    \/ SetOff
    \/ AdaptiveSleep
    \/ AdaptiveSleepRaises
    \/ SleepReturns
    \/ SleepRaises

Spec == Init /\ [][Next]_vars

\* ------------------------------------------------- check_headset on its own
\* check_headset has been called and headsetcontrol has printed stdout.
InitParse ==
    /\ pc = "check_wait"
    /\ last_available = FALSE
    /\ last_device_name = None
    /\ last_check = 0
    /\ current_time = MinTimeBetweenChecks
    /\ device_name = None
    /\ battery_level = None
    /\ battery_available = FALSE
    /\ sleep_time = 0
    /\ run_result = "none"
    /\ running = {"headsetcontrol"}
    /\ notified = <<>>
    /\ nprobes = 0
    /\ hist = <<>>
    /\ recording = TRUE
    /\ clock = 0
    /\ stdout \in ParseInputs
    /\ cpu_percent = 0

\* subprocess.run returns that stdout; check_headset parses it and returns.
ParseReturns ==
    /\ pc = "check_wait"
    /\ running' = AfterRun(running, "headsetcontrol")
    /\ Probed(Completed(0, stdout))
    /\ UNCHANGED <<last_available, last_device_name, current_time, sleep_time,
                   notified>>
    /\ UNCHANGED env

SpecParse == InitParse /\ [][ParseReturns]_vars

\* ------------------------------------------------------------ observations
\* The transition evaluation of the latest probe has finished.
Evaluating == {"transition", "notify_on", "notify_on_wait", "set_on",
               "notify_off", "notify_off_wait", "set_off"}
EvalFinished == nprobes > 0 /\ pc \notin Evaluating

\* A notification has been sent for a transition whose state update is pending.
UpdatePending == pc \in {"notify_on_wait", "set_on", "notify_off_wait", "set_off"}

\* The notifications sent while handling probe p.
NotesOf(p) == {i \in 1..Len(notified) : notified[i].probe = p}

\* Probe p has been handled up to and including its notification, if any.
Dispatched(p) == p < nprobes \/ pc \notin {"transition", "notify_on", "notify_off"}

Odd(n) == n % 2 = 1

\* ------------------------------------------------------------------ claims
\* C1: the notifications the loop sends alternate "Headset Turned On",
\* "Headset Turned Off", ... starting with "Headset Turned On"; no probe sends
\* more than one; and the logical state changes exactly with a notification of
\* the matching kind (it is CONNECTED exactly when the count of notifications
\* is odd, the pending update of the transition being handled apart).
C1_Alternation ==
    /\ \A i \in 1..Len(notified) :
         notified[i].title = IF Odd(i) THEN TurnedOn ELSE TurnedOff
    /\ \A i, j \in 1..Len(notified) : i < j => notified[i].probe < notified[j].probe
    /\ last_available = IF UpdatePending THEN ~Odd(Len(notified)) ELSE Odd(Len(notified))

\* Flapping: on, off, on again, each with its notification.
C1_Witness == Len(notified) = 3 /\ pc = "adaptive" /\ last_available

\* C2: from DISCONNECTED, a run of consecutive probes that all report
\* battery_available = true sends exactly one "Headset Turned On", at the first
\* probe of the run, and none at the later probes of the run.
C2_Idempotence ==
    \A p \in 1..Len(hist) : \A q \in p..Len(hist) :
        (~hist[p].was /\ \A k \in p..q : hist[k].available) =>
            /\ Dispatched(p) =>
                 /\ Cardinality(NotesOf(p)) = 1
                 /\ \A i \in NotesOf(p) : notified[i].title = TurnedOn
            /\ \A k \in (p + 1)..q : NotesOf(k) = {}

\* Two probes in a row found the battery available; the second is handled.
C2_Witness ==
    /\ nprobes = 2 /\ pc = "adaptive"
    /\ ~hist[1].was /\ hist[1].available /\ hist[2].available

\* C3 as stated: after every probe, last_available equals the probe's
\* battery_available.
C3_Original == EvalFinished => last_available = battery_available

\* C3, amended: after every probe last_available equals the probe's
\* battery_available, unless the state was CONNECTED and the reading has
\* battery_available = false with a null or empty device_name: then
\* last_available stays true.
C3_Amended ==
    EvalFinished =>
        last_available = IF hist[nprobes].was /\ ~battery_available /\ ~Truthy(device_name)
                         THEN TRUE
                         ELSE battery_available

\* A disconnect was recorded, and a reading without a name was passed over.
C3_Witness ==
    /\ nprobes = 3 /\ pc = "adaptive"
    /\ hist[2].was /\ ~hist[2].available /\ hist[3].was
    /\ ~battery_available /\ Truthy(device_name) /\ ~last_available

\* C4: in CONNECTED the reading (None, None, False) sends no notification and
\* leaves the state CONNECTED; the state leaves CONNECTED, and a "Headset Turned
\* Off" is sent, only at a reading with a non-null device_name and
\* battery_available = false.
C4_Step ==
    /\ (pc = "transition" /\ last_available /\ reading = NullReading) =>
         (pc' = "adaptive" /\ last_available' /\ notified' = notified)
    /\ (last_available /\ ~last_available') =>
         (device_name # None /\ ~battery_available)
    /\ (notified' # notified /\ notified'[Len(notified')].title = TurnedOff) =>
         (device_name # None /\ ~battery_available /\ last_available)
C4_DisconnectWithoutName == [][C4_Step]_vars

\* CONNECTED survived two readings without battery, the last one (None, None, False).
C4_Witness ==
    /\ nprobes = 3 /\ pc = "adaptive"
    /\ hist[2].was /\ ~hist[2].available /\ hist[3].was
    /\ reading = NullReading /\ last_available /\ Len(notified) = 1

\* C5 as stated: in CONNECTED, every reading with battery_available = false and
\* a non-null device_name sends exactly one "Headset Turned Off" and sets the
\* state to DISCONNECTED.
C5_Disconnect ==
    (EvalFinished /\ hist[nprobes].was /\ ~battery_available /\ device_name # None) =>
        /\ ~last_available
        /\ Cardinality(NotesOf(nprobes)) = 1
        /\ \A i \in NotesOf(nprobes) : notified[i].title = TurnedOff

\* C6: the prober is called only when current_time is at least 0.1 s after
\* last_check; last_check changes only when the prober is called, to that
\* current_time, so it only increases and two executed probes' timestamps
\* differ by at least 0.1 s.
C6_Step ==
    /\ (pc = "time" /\ current_time' - last_check < MinTimeBetweenChecks) =>
         pc' \notin {"check", "check_wait", "transition"}
    /\ nprobes' # nprobes =>
         /\ current_time - last_check >= MinTimeBetweenChecks
         /\ last_check' = current_time
    /\ last_check' # last_check =>
         /\ nprobes' = nprobes + 1
         /\ last_check' >= last_check + MinTimeBetweenChecks
C6_RateLimit == [][C6_Step]_vars

\* A rate-limited iteration after two executed probes.
C6_Witness == pc = "rate_sleep" /\ nprobes = 2 /\ current_time > last_check

\* C7 as stated: no exception of an operation of the loop stops the loop.
C7_NeverStops == pc # "crashed"

\* C8 as stated: every failure of the status command (failing to start, a
\* non-zero exit, output that cannot be decoded) gives (None, None, False).
C8_FailuresGiveNull ==
    run_result \notin {"none", "exit 0"} => reading = NullReading

\* C9: at most one child process runs at a time; a probe runs only with no
\* notification in flight and with the notification of every recorded
\* transition sent; the state is updated for a transition only after its
\* notification was sent and send_notification has returned.
C9_State ==
    /\ Cardinality(running) <= 1
    /\ "headsetcontrol" \in running => pc = "check_wait"
    /\ pc \in {"check", "check_wait"} =>
         /\ running \subseteq {"headsetcontrol"}
         /\ \A i \in 1..Len(notified) : notified[i].probe <= nprobes
         /\ last_available = Odd(Len(notified))
    /\ pc \in {"set_on", "set_off"} => running = {}
C9_Step ==
    (last_available' # last_available \/ last_device_name' # last_device_name) =>
        /\ running = {}
        /\ notified # <<>>
        /\ notified[Len(notified)].probe = nprobes
        /\ notified[Len(notified)].title = IF last_available' THEN TurnedOn ELSE TurnedOff
C9_Sequential == []C9_State /\ [][C9_Step]_vars

\* A probe is running after a notification was sent for the previous one.
C9_Witness == pc = "check_wait" /\ nprobes >= 1 /\ NotesOf(nprobes) # {}

\* C10: a "Headset Turned Off" names the device of the "Headset Turned On"
\* before it, and last_device_name is the device_name of the reading of the
\* most recent connect transition, whatever was read since.
OnNames ==
    LET ons == IF UpdatePending /\ Odd(Len(notified))
               THEN SubSeq(notified, 1, Len(notified) - 1)
               ELSE notified
    IN  SelectSeq(ons, LAMBDA n : n.title = TurnedOn)
C10_NamesLastDevice ==
    /\ \A i \in 1..Len(notified) :
         notified[i].title = TurnedOff =>
            /\ i > 1
            /\ notified[i - 1].title = TurnedOn
            /\ notified[i].message = OffMessage(notified[i - 1].message[2])
    /\ pc \in {"notify_on_wait", "set_on"} =>
         notified[Len(notified)].message[2] = device_name
    /\ last_device_name = IF OnNames = <<>> THEN None
                          ELSE OnNames[Len(OnNames)].message[2]

\* A disconnect read under another name than the one the headset connected with.
C10_Witness ==
    /\ pc = "set_off" /\ device_name # last_device_name
    /\ notified[Len(notified)].message = OffMessage(last_device_name)

\* ------------------------------------------------ adaptive_sleep on its own
\* The loop is at the end of an iteration and psutil has returned cpu_percent.
InitSleep ==
    /\ pc = "adaptive"
    /\ last_available = FALSE
    /\ last_device_name = None
    /\ last_check = 0
    /\ current_time = 0
    /\ device_name = None
    /\ battery_level = None
    /\ battery_available = FALSE
    /\ sleep_time = 0
    /\ run_result = "none"
    /\ running = {}
    /\ notified = <<>>
    /\ nprobes = 0
    /\ hist = <<>>
    /\ recording = TRUE
    /\ clock = 0
    /\ stdout = <<>>
    /\ cpu_percent \in CpuPercents

\* sleep_time = adaptive_sleep(), for that sample
AdaptiveSleepReturns ==
    /\ pc = "adaptive"
    /\ sleep_time' = adaptive_sleep(cpu_percent)
    /\ pc' = "sleep"
    /\ UNCHANGED <<locals, reading, running, notified, observed>>
    /\ UNCHANGED env

SpecSleep == InitSleep /\ [][AdaptiveSleepReturns \/ SleepReturns]_vars

\* ------------------------------------------- the loop on a monotonic clock
\* Here time.time() reads a clock that never goes back, and a sleep of d lasts
\* d plus an overshoot; the time the other statements take is counted into the
\* overshoot of the sleep that follows them.  Only differences of times are
\* ever tested, so times are kept relative to an origin that moves forward
\* once the clock has reached MaxClock; a time that falls behind the origin is
\* kept at 0, which is at least MinTimeBetweenChecks in the past.
MaxClock == 12
MaxOvershoot == 2

Max(a, b) == IF a >= b THEN a ELSE b

Elapse(d) ==
    LET c == clock + d
        shift == IF c > MaxClock THEN c - MaxClock ELSE 0
    IN  /\ clock' = c - shift
        /\ last_check' = Max(last_check - shift, 0)
        /\ current_time' = Max(current_time - shift, 0)

InitClock ==
    /\ pc = "time"
    /\ last_available = FALSE
    /\ last_device_name = None
    /\ last_check = 0
    /\ current_time = 0
    /\ device_name = None
    /\ battery_level = None
    /\ battery_available = FALSE
    /\ sleep_time = 0
    /\ run_result = "none"
    /\ running = {}
    /\ notified = <<>>
    /\ nprobes = 0
    /\ hist = <<>>
    /\ recording = FALSE
    /\ clock \in 0..MaxClock
    /\ stdout = <<>>
    /\ cpu_percent = 0

\* current_time = time.time()
ReadClock == ReadTimeAt(clock)

\* time.sleep(0.01); continue
RateLimitSleepElapses ==
    /\ pc = "rate_sleep"
    /\ \E over \in 0..MaxOvershoot : Elapse(RateLimitSleep + over)
    /\ pc' = "time"
    /\ UNCHANGED <<last_available, last_device_name, reading, sleep_time, running,
                   notified, observed, recording, stdout, cpu_percent>>

\* time.sleep(sleep_time)
SleepElapses ==
    /\ pc = "sleep"
    /\ \E over \in 0..MaxOvershoot : Elapse(sleep_time + over)
    /\ pc' = "time"
    /\ UNCHANGED <<last_available, last_device_name, reading, sleep_time, running,
                   notified, observed, recording, stdout, cpu_percent>>

\* The steps of the loop when every external call returns.
NextLive ==
    \/ ReadClock
    \/ RateLimitSleepElapses
    \/ CheckStart
    \/ CheckStartFails
    \/ CheckReturns
    \/ Evaluate
    \/ NotifyStart
    \/ NotifyFails
    \/ NotifyReturns
    \/ SetOn
    \/ SetOff
    \/ AdaptiveSleep
    \/ SleepElapses

\* The steps of the loop on that clock: time.time() returns its reading, any
\* other call may raise.
NextClock ==
    \/ NextLive
    \/ RateLimitSleepRaises
    \/ LogError
    \/ AdaptiveSleepRaises
    \/ SleepRaises

SpecClock == InitClock /\ [][NextClock]_vars

\* The loop is sequential and every call returns: its next step is taken.
SpecLive == InitClock /\ [][NextLive]_vars /\ WF_vars(NextLive)

\* --------------------------------------------------- claims on the loop (2)
\* What a rate-limited iteration must leave alone.
kept == <<last_available, last_device_name, last_check, nprobes, notified, running>>

\* C14 as stated: a rate-limited iteration performs only the 10 ms sleep and
\* starts the next iteration, with no probe, notification, CPU sample or
\* adaptive sleep, and last_available, last_device_name, last_check unchanged.
C14_StepOriginal ==
    /\ (pc = "time" /\ pc' = "rate_sleep") => UNCHANGED <<kept, sleep_time>>
    /\ pc = "rate_sleep" => (pc' = "time" /\ UNCHANGED <<kept, sleep_time>>)
C14_Original == [][C14_StepOriginal]_vars

\* C14, amended: a rate-limited iteration calls no probe, sends no notification
\* and leaves last_available, last_device_name and last_check unchanged; when
\* its 10 ms sleep returns it does nothing else, and when that sleep raises the
\* loop's handler catches it and the iteration goes on to the adaptive sleep.
C14_Step ==
    /\ (pc = "time" /\ pc' = "rate_sleep") =>
         (current_time' - last_check < MinTimeBetweenChecks /\ UNCHANGED <<kept, sleep_time>>)
    /\ pc = "rate_sleep" =>
         (pc' \in {"time", "except"} /\ UNCHANGED <<kept, sleep_time, current_time>>)
    /\ pc = "except" => (pc' = "adaptive" /\ UNCHANGED <<kept, sleep_time>>)
    /\ pc \in {"adaptive", "sleep"} => UNCHANGED kept
C14_RateLimited == [][C14_Step]_vars

\* A rate-limited iteration in CONNECTED is over.
C14_Witness ==
    /\ pc = "time" /\ nprobes = 1 /\ last_available
    /\ current_time > last_check /\ current_time - last_check < MinTimeBetweenChecks

C17_NamedWhenAvailable ==
    /\ battery_available => device_name # None
    /\ last_available => last_device_name # None
    /\ \A i \in 1..Len(notified) :
           notified[i].title = TurnedOff => notified[i].message[2] # None

\* A disconnect is being announced, with the name kept from the connect.
C17_Witness ==
    /\ pc = "notify_off_wait" /\ last_available /\ last_device_name # None
    /\ notified[Len(notified)].title = TurnedOff
    /\ notified[Len(notified)].message[2] = last_device_name

\* C18: on a monotonic clock where a sleep of d lasts at least d, the
\* rate-limit branch is never taken once the first probe has executed.
C18_State == run_result # "none" => pc # "rate_sleep"
\* Every iteration that starts after the first probe goes on to probe.
C18_Step == (run_result # "none" /\ pc = "time") => pc' = "check"
C18_NoRateLimitAfterProbe == []C18_State /\ [][C18_Step]_vars

\* An iteration after the first probe reads the clock and goes on to probe.
C18_Witness ==
    /\ pc = "check" /\ run_result # "none"
    /\ current_time - last_check >= MinTimeBetweenChecks

\* C16: when every external call returns and the clock advances, the prober
\* is invoked infinitely often, and every rate-limited iteration is followed
\* by a probing one.
C16_KeepsProbing ==
    /\ []<>(pc = "check")
    /\ (pc = "rate_sleep") ~> (pc = "check")

\* A rate-limited iteration, the first probe not yet made.
C16_Witness == pc = "rate_sleep" /\ run_result = "none" /\ clock > 0

\* ------------------------------------------------- claims on check_headset
\* What an output holds, read off the text: an announcement `Found <name>!` from
\* token i to token j on one line, a battery line `Level: <digits>%` from a to b.
Announcement(s, i, j) ==
    /\ i < j
    /\ s[i] = FOUND
    /\ s[j] = BANG
    /\ \A k \in (i + 1)..(j - 1) : s[k] \notin {NL, BANG}
BatteryLine(s, a, b) ==
    /\ a + 1 < b
    /\ s[a] = LEVEL
    /\ s[b] = PERCENT
    /\ \A k \in (a + 1)..(b - 1) : s[k] \in Digits
Positions(s) == 1..Len(s)
PlainName(x) == \A k \in 1..Len(x) : x[k] \in {"X", "Y"}
Parsed == pc = "transition" /\ run_result = "exit 0"

\* C11 as stated: an output that holds `Found X!`, BATTERY_AVAILABLE and
\* `Level: N%`, wherever and however often, is read as (X, N, true).
C11_Original ==
    (Parsed /\ BATTERY_AVAILABLE \in {stdout[k] : k \in Positions(stdout)}
            /\ \E a, b \in Positions(stdout) : BatteryLine(stdout, a, b)) =>
        /\ \A i, j \in Positions(stdout) :
             (Announcement(stdout, i, j) /\ PlainName(SubSeq(stdout, i + 1, j - 1))) =>
                 device_name = Some(SubSeq(stdout, i + 1, j - 1))
        /\ (\E i, j \in Positions(stdout) : Announcement(stdout, i, j)) =>
             /\ battery_available
             /\ \A a, b \in Positions(stdout) :
                  BatteryLine(stdout, a, b) =>
                      battery_level = Some(ToInt(SubSeq(stdout, a + 1, b - 1)))

\* C11, amended: an output that holds an announcement, BATTERY_AVAILABLE and a
\* battery line is read as (X, N, true), `Found X!` being the leftmost
\* announcement and `Level: N%` the leftmost battery line.
C11_Leftmost ==
    (Parsed /\ BATTERY_AVAILABLE \in {stdout[k] : k \in Positions(stdout)}
            /\ (\E i, j \in Positions(stdout) : Announcement(stdout, i, j))
            /\ (\E a, b \in Positions(stdout) : BatteryLine(stdout, a, b))) =>
        /\ \A i, j \in Positions(stdout) :
             (/\ Announcement(stdout, i, j)
              /\ ~\E i2 \in 1..(i - 1), j2 \in Positions(stdout) :
                    Announcement(stdout, i2, j2)) =>
                 device_name = Some(SubSeq(stdout, i + 1, j - 1))
        /\ \A a, b \in Positions(stdout) :
             (/\ BatteryLine(stdout, a, b)
              /\ ~\E a2 \in 1..(a - 1), b2 \in Positions(stdout) :
                    BatteryLine(stdout, a2, b2)) =>
                 battery_level = Some(ToInt(SubSeq(stdout, a + 1, b - 1)))
        /\ battery_available

\* An output with two announcements, the marker and a battery line was read as
\* the first device.
C11_Witness ==
    /\ Parsed
    /\ \E i, j \in Positions(stdout) :
         Announcement(stdout, i, j) /\ SubSeq(stdout, i + 1, j - 1) = <<"Y">>
    /\ reading = <<Some(<<"X">>), Some(57), TRUE>>

\* C12: an output that holds no announcement `Found <name>!` is read as
\* (None, None, False), whatever else it holds.
C12_NoAnnouncement ==
    (Parsed /\ ~\E i, j \in Positions(stdout) : Announcement(stdout, i, j)) =>
        reading = NullReading

\* "Found " and "!" on different lines, and the marker: no device.
C12_Witness ==
    /\ Parsed
    /\ {FOUND, NL, BANG, BATTERY_AVAILABLE} \subseteq {stdout[k] : k \in Positions(stdout)}
    /\ \E i, j \in Positions(stdout) : i < j /\ stdout[i] = FOUND /\ stdout[j] = BANG
    /\ reading = NullReading

\* ------------------------------------------------ claims on adaptive_sleep
\* C13: for every CPU utilization from 0 to 100 %, the duration of the sleep at
\* the end of the iteration is 0.5 s above 20 % and 0.1 s otherwise (0.1 s at 20 %).
C13_AdaptiveSleep ==
    pc \in {"sleep", "time"} =>
        sleep_time = IF cpu_percent > 200 THEN 50 ELSE 10

\* A sample of exactly 20 % gave the short sleep, which has been slept.
C13_Witness == pc = "time" /\ cpu_percent = 200 /\ sleep_time = 10

====
